---------------------------- MODULE Spec2Model ----------------------------
(***************************************************************************)
(* Model of src/Rate_trends.py: a Streamlit script that loads a table from *)
(* a spreadsheet through a time-to-live cache, converts two columns to     *)
(* numbers, filters by zone and vehicle type, aggregates per Month and     *)
(* renders three charts and an optional raw table.                         *)
(*                                                                         *)
(* Text is modelled where the code looks inside it: Month labels and the   *)
(* cells of the two numeric columns are sequences of character codes       *)
(* (compared and parsed character by character); ZONE and vehicle labels   *)
(* are only ever compared for equality and are TLA+ strings.  The sheet    *)
(* cannot be reached, or has no values, or has a well-formed header with   *)
(* rectangular data rows below it.  Numbers are exact rationals extended   *)
(* with the two infinities and NaN; binary rounding is not modelled.       *)
(*                                                                         *)
(* A run of the script is a sequence of steps: the cache lookup of         *)
(* load_data(); on a miss the connection, the upstream request and the     *)
(* write of the entry; and then the rest of the script.  Other sessions,   *)
(* the clock and the sheet may move between any two of them.  How the      *)
(* decorator treats callers that miss at the same time is not in this      *)
(* file: a caller may compute alongside another, or be given the entry     *)
(* another has stored in the meantime.  The user acts on the widgets of a  *)
(* finished run; the stored widget values outlive a run that raised.       *)
(***************************************************************************)
EXTENDS Integers, Sequences, FiniteSets, TLC

VARIABLES sheet,    \* the upstream: reachable?, header present?, data rows
          secrets,  \* st.secrets: complete, or which part is missing
          service,  \* the st.cache_resource entry of connect_to_gsheet()
          cache,    \* the st.cache_data entry of load_data()
          now,      \* wall clock, in seconds
          lastFetch, \* when the latest upstream values().get().execute()
                    \* call was made, -1 before the first
          sess      \* per browser session: position, widget state, outputs

vars == <<sheet, secrets, service, cache, now, lastFetch, sess>>

---------------------------------------------------------------------------
(* Bounds and program constants *)

MaxRows == 2
MaxTime == 700
TickStep == 300
TTL == 600

Sessions == {1, 2}

---------------------------------------------------------------------------
(* Text literals, as character codes *)

Jan == <<74, 97, 110>>
Feb == <<70, 101, 98>>
c100 == <<49, 48, 48>>
c200 == <<50, 48, 48>>
c2e2 == <<50, 101, 50>>
c1p5 == <<49, 46, 53>>
cNeg5 == <<45, 53>>
c5 == <<53>>
c7 == <<55>>
cSp5 == <<32, 53, 32>>
blank == <<>>
abc == <<97, 98, 99>>
nan == <<110, 97, 110>>
inf == <<105, 110, 102>>
infinity == <<105, 110, 102, 105, 110, 105, 116, 121>>

\* str.__lt__: lexicographic order on code points, a proper prefix first
RECURSIVE StrLess(_, _)
StrLess(a, b) ==
  IF b = <<>> THEN FALSE
  ELSE IF a = <<>> THEN TRUE
  ELSE IF a[1] # b[1] THEN a[1] < b[1]
  ELSE StrLess(Tail(a), Tail(b))

---------------------------------------------------------------------------
(* Numbers (float64): num/den in lowest terms with den > 0; den = 0 is     *)
(* +inf (num = 1), -inf (num = -1) or NaN (num = 0)                        *)

NaN == [num |-> 0, den |-> 0]
PosInf == [num |-> 1, den |-> 0]
NegInf == [num |-> -1, den |-> 0]
Num(n) == [num |-> n, den |-> 1]
IsNaN(v) == v.den = 0 /\ v.num = 0

Abs(n) == IF n < 0 THEN -n ELSE n

RECURSIVE Gcd(_, _)
Gcd(a, b) == IF b = 0 THEN a ELSE Gcd(b, a % b)

\* the number n / d, d > 0
Frac(n, d) ==
  LET g == Gcd(Abs(n), d) IN [num |-> n \div g, den |-> d \div g]

\* a + b
Add(a, b) ==
  IF IsNaN(a) \/ IsNaN(b) THEN NaN
  ELSE IF a.den = 0 /\ b.den = 0 THEN (IF a.num = b.num THEN a ELSE NaN)
  ELSE IF a.den = 0 THEN a
  ELSE IF b.den = 0 THEN b
  ELSE Frac(a.num * b.den + b.num * a.den, a.den * b.den)

\* a < b, neither NaN
Less(a, b) ==
  IF a.den = 0 /\ b.den = 0 THEN a.num < b.num
  ELSE a.num * b.den < b.num * a.den

\* v / n for a count n > 0
DivBy(v, n) == IF v.den = 0 THEN v ELSE Frac(v.num, v.den * n)

RECURSIVE Pow10(_)
Pow10(n) == IF n = 0 THEN 1 ELSE 10 * Pow10(n - 1)

---------------------------------------------------------------------------
(* pd.to_numeric (errors="raise") on a column of strings, line 39-40: each *)
(* cell goes through the float parser (leading and trailing white space,   *)
(* sign, digits, fraction, exponent) and, failing that, is compared with   *)
(* the words inf and infinity; anything else, the word nan included,       *)
(* raises                                                                  *)

IsDigit(c) == c \in 48..57
IsSpace(c) == c \in 9..13 \/ c = 32
IsSign(c) == c = 43 \/ c = 45
Lower(c) == IF c \in 65..90 THEN c + 32 ELSE c

RECURSIVE DecimalValue(_)
DecimalValue(s) ==
  IF s = <<>> THEN 0
  ELSE 10 * DecimalValue(SubSeq(s, 1, Len(s) - 1)) + (s[Len(s)] - 48)

\* the white space is skipped on both sides
RECURSIVE Strip(_)
Strip(s) ==
  IF s = <<>> THEN s
  ELSE IF IsSpace(s[1]) THEN Strip(Tail(s))
  ELSE IF IsSpace(s[Len(s)]) THEN Strip(SubSeq(s, 1, Len(s) - 1))
  ELSE s

\* the length of the run of digits s starts with
RECURSIVE DigitRun(_)
DigitRun(s) ==
  IF s = <<>> \/ ~IsDigit(s[1]) THEN 0 ELSE 1 + DigitRun(Tail(s))

Drop(s, n) == SubSeq(s, n + 1, Len(s))

Raise == [ok |-> FALSE, val |-> NaN]

\* the scanned numeral: mantissa digits int.frac, times ten to the exp
FloatValue(neg, int, frac, exp) ==
  LET mant == DecimalValue(int \o frac)
      signed == IF neg THEN -mant ELSE mant
      shift == exp - Len(frac)
  IN [ok |-> TRUE,
      val |-> IF shift >= 0 THEN Num(signed * Pow10(shift))
              ELSE Frac(signed, Pow10(-shift))]

\* the digits of the exponent, which must be there and end the text
ScanExpDigits(e, eneg, neg, int, frac) ==
  IF e = <<>> \/ DigitRun(e) # Len(e) THEN Raise
  ELSE FloatValue(neg, int, frac,
                  IF eneg THEN -DecimalValue(e) ELSE DecimalValue(e))

\* what follows the mantissa: nothing, or e / E, an optional sign and digits
ScanExp(c, neg, int, frac) ==
  IF Len(int) + Len(frac) = 0 THEN Raise
  ELSE IF c = <<>> THEN FloatValue(neg, int, frac, 0)
  ELSE IF Lower(c[1]) # 101 \/ Len(c) = 1 THEN Raise
  ELSE IF IsSign(c[2])
  THEN ScanExpDigits(Drop(c, 2), c[2] = 45, neg, int, frac)
  ELSE ScanExpDigits(Drop(c, 1), FALSE, neg, int, frac)

\* an optional decimal point and the digits after it
ScanFrac(a, neg, int) ==
  IF a # <<>> /\ a[1] = 46
  THEN ScanExp(Drop(a, 1 + DigitRun(Tail(a))), neg, int,
               SubSeq(a, 2, 1 + DigitRun(Tail(a))))
  ELSE ScanExp(a, neg, int, <<>>)

\* the digits before the decimal point
ScanInt(t, neg) ==
  ScanFrac(Drop(t, DigitRun(t)), neg, SubSeq(t, 1, DigitRun(t)))

\* [sign] digits [. digits] [e [sign] digits] between white space, at least
\* one digit in the mantissa and in an exponent, nothing left over
ParseFloat(cell) ==
  LET s == Strip(cell)
  IN IF s # <<>> /\ IsSign(s[1]) THEN ScanInt(Tail(s), s[1] = 45)
     ELSE ScanInt(s, FALSE)

\* inf, infinity in any letter case, with an optional sign
ParseWord(cell) ==
  LET neg == cell # <<>> /\ cell[1] = 45
      t == IF cell # <<>> /\ IsSign(cell[1]) THEN Tail(cell) ELSE cell
      w == [i \in 1..Len(t) |-> Lower(t[i])]
  IN IF w = inf \/ w = infinity
     THEN [ok |-> TRUE, val |-> IF neg THEN NegInf ELSE PosInf]
     ELSE Raise

\* one cell: an empty string becomes NaN, a number parses, anything else
\* raises
ParseCell(cell) ==
  IF cell = <<>> THEN [ok |-> TRUE, val |-> NaN]
  ELSE IF ParseFloat(cell).ok THEN ParseFloat(cell)
  ELSE ParseWord(cell)

\* the column of the parsed cells: raises ValueError if any cell did
AllParsed(parsed) ==
  IF \E i \in DOMAIN parsed : ~parsed[i].ok
  THEN [ok |-> FALSE, vals |-> <<>>]
  ELSE [ok |-> TRUE, vals |-> [i \in DOMAIN parsed |-> parsed[i].val]]

\* a whole column
ToNumeric(col) == AllParsed([i \in 1..Len(col) |-> ParseCell(col[i])])

Column(df, name) == [i \in 1..Len(df) |-> df[i][name]]

---------------------------------------------------------------------------
(* Series.unique(): distinct values in order of first appearance *)

RECURSIVE Unique(_)
Unique(col) ==
  IF col = <<>> THEN <<>>
  ELSE LET init == Unique(SubSeq(col, 1, Len(col) - 1))
           x == col[Len(col)]
       IN IF \E i \in 1..Len(init) : init[i] = x THEN init ELSE Append(init, x)

---------------------------------------------------------------------------
(* Filters, lines 59-64 *)

\* Series.isin(values): the boolean mask
IsIn(col, values) == [i \in 1..Len(col) |-> col[i] \in values]

\* df[mask]: the rows whose mask is True, in place order
RECURSIVE BoolIndex(_, _)
BoolIndex(df, mask) ==
  IF df = <<>> THEN <<>>
  ELSE LET n == Len(df)
           init == BoolIndex(SubSeq(df, 1, n - 1), SubSeq(mask, 1, n - 1))
       IN IF mask[n] THEN Append(init, df[n]) ELSE init

\* variant of FilterStart that keeps filtering the previous run's result
FilterStartStale(df, stale) == IF stale # <<>> THEN stale ELSE df

\* line 60: filtered_df = df.copy(), whatever an earlier run left behind
FilterStart(df, stale) == df

\* variant of ApplyFilters without the two "if selected_...:" guards
ApplyFiltersNoGuard(start, selected_zone, selected_vehicle) ==
  LET z == BoolIndex(start, IsIn(Column(start, "ZONE"), selected_zone))
  IN BoolIndex(z, IsIn(Column(z, "Vehicle"), selected_vehicle))

\* lines 61-64: an empty selection (falsy list) skips its filter
ApplyFilters(start, selected_zone, selected_vehicle) ==
  LET z == IF selected_zone # {}
           THEN BoolIndex(start, IsIn(Column(start, "ZONE"), selected_zone))
           ELSE start
  IN IF selected_vehicle # {}
     THEN BoolIndex(z, IsIn(Column(z, "Vehicle"), selected_vehicle))
     ELSE z

---------------------------------------------------------------------------
(* Aggregation, lines 66-72 *)

\* the sorted group keys of groupby(..., sort=True): insertion sort
RECURSIVE InsertKey(_, _)
InsertKey(keys, k) ==
  IF keys = <<>> THEN <<k>>
  ELSE IF StrLess(k, keys[1]) THEN <<k>> \o keys
  ELSE <<keys[1]>> \o InsertKey(Tail(keys), k)

RECURSIVE SortKeys(_)
SortKeys(keys) ==
  IF keys = <<>> THEN <<>>
  ELSE InsertKey(SortKeys(SubSeq(keys, 1, Len(keys) - 1)), keys[Len(keys)])

\* variant of GroupKeys with sort=False: keys in order of first appearance
GroupKeysUnsorted(filtered) == Unique(Column(filtered, "Month"))

GroupKeys(filtered) == SortKeys(Unique(Column(filtered, "Month")))

\* the values of one column in one group, in row order
GroupValues(filtered, key, name) ==
  Column(BoolIndex(filtered, [i \in 1..Len(filtered) |-> filtered[i].Month = key]),
         name)

\* running total and count of the non-NaN values (skipna)
RECURSIVE Total(_)
Total(vals) ==
  IF vals = <<>> THEN Num(0)
  ELSE IF IsNaN(vals[Len(vals)]) THEN Total(SubSeq(vals, 1, Len(vals) - 1))
  ELSE Add(Total(SubSeq(vals, 1, Len(vals) - 1)), vals[Len(vals)])

RECURSIVE Count(_)
Count(vals) ==
  IF vals = <<>> THEN 0
  ELSE Count(Tail(vals)) + (IF IsNaN(vals[1]) THEN 0 ELSE 1)

RECURSIVE Largest(_)
Largest(vals) ==
  IF vals = <<>> THEN NaN
  ELSE LET rest == Largest(Tail(vals))
       IN IF IsNaN(vals[1]) THEN rest
          ELSE IF IsNaN(rest) \/ Less(rest, vals[1]) THEN vals[1]
          ELSE rest

\* GroupBy.mean / .sum / .max of one column of one group
Reduce(method, vals) ==
  IF method = "Average"
  THEN IF Count(vals) = 0 THEN NaN ELSE DivBy(Total(vals), Count(vals))
  ELSE IF method = "Sum" THEN Total(vals)
  ELSE Largest(vals)

\* groupby("Month").<method>(numeric_only=True).reset_index()
Aggregate(filtered, method) ==
  LET keys == GroupKeys(filtered)
  IN [k \in 1..Len(keys) |->
        [Month |-> keys[k],
         Freight |-> Reduce(method, GroupValues(filtered, keys[k], "Freight")),
         TAT |-> Reduce(method, GroupValues(filtered, keys[k], "TAT"))]]

---------------------------------------------------------------------------
(* The script body after load_data(), lines 38-110 *)

\* the frame after the two assignments, f and t being the converted columns;
\* the first conversion that raised ends the run at its line
AssignNumeric(rows, f, t) ==
  IF ~f.ok THEN [ok |-> FALSE, line |-> 39, df |-> <<>>]
  ELSE IF ~t.ok THEN [ok |-> FALSE, line |-> 40, df |-> <<>>]
  ELSE [ok |-> TRUE, line |-> 0,
        df |-> [i \in 1..Len(rows) |->
                  [rows[i] EXCEPT !.Freight = f.vals[i], !.TAT = t.vals[i]]]]

\* lines 39-40: the two conversions in turn; either raises ValueError
ConvertNumeric(rows) ==
  AssignNumeric(rows, ToNumeric(Column(rows, "Freight")),
                ToNumeric(Column(rows, "TAT")))

Methods == {"Average", "Sum", "Max"}

\* widget state the UI framework keeps for a session between reruns; a widget
\* is identified by its label, options and default, so a stored value
\* survives only while the options are the same
NoWidgets ==
  [live |-> FALSE, zoneOpts |-> <<>>, zone |-> {}, vehOpts |-> <<>>,
   vehicle |-> {}, method |-> "Average", raw |-> FALSE]

Multiselect(live, storedOpts, stored, options, default) ==
  IF live /\ storedOpts = options THEN stored ELSE default

\* variant of ZoneDefault: no default given
ZoneDefaultNone(options) == {}

\* line 47: default=df["ZONE"].unique()[0]
ZoneDefault(options) == {options[1]}

\* line 55: st.radio starts on its first option
Radio(live, stored) == IF live THEN stored ELSE "Average"

\* line 107: st.checkbox(..., False)
Checkbox(live, stored) == IF live THEN stored ELSE FALSE

NoFig == [title |-> <<>>, x |-> <<>>, y |-> <<>>]

\* what a run has produced; status and line say where an exception ended it
NoOut ==
  [status |-> "none", line |-> 0, df |-> <<>>, selected_zone |-> {},
   selected_vehicle |-> {}, agg_method |-> "Average", filtered_df |-> <<>>,
   agg_df |-> <<>>, fig_freight |-> NoFig, fig_tat |-> NoFig,
   fig_trends |-> NoFig, table |-> <<>>, produced |-> {}]

\* lines 75-104
FigFreight(agg_df, agg_method) ==
  [title |-> <<agg_method, " Freight Value">>,
   x |-> Column(agg_df, "Month"), y |-> <<Column(agg_df, "Freight")>>]

FigTat(agg_df, agg_method) ==
  [title |-> <<agg_method, " TAT Over Time">>,
   x |-> Column(agg_df, "Month"), y |-> <<Column(agg_df, "TAT")>>]

FigTrends(agg_df) ==
  [title |-> <<"Freight vs TAT Trend">>,
   x |-> Column(agg_df, "Month"),
   y |-> <<Column(agg_df, "Freight"), Column(agg_df, "TAT")>>]

\* variant of RawTable that displays the whole loaded table
RawTableUnfiltered(df, filtered_df) == df

\* lines 107-108: what st.dataframe is given
RawTable(df, filtered_df) == filtered_df

AllArtifacts ==
  {"title", "sidebar_header", "zone_widget", "vehicle_widget", "method_widget",
   "filtered_df", "agg_df", "fig_freight", "fig_tat", "fig_trends",
   "raw_checkbox"}

\* lines 66-110: the charts and the raw table, and what the UI framework
\* stores of the widgets that were rendered; sel holds the widget values
Charts(df, zopts, vopts, sel, filtered_df, agg_df) ==
  [w |-> [live |-> TRUE, zoneOpts |-> zopts, zone |-> sel.selected_zone,
          vehOpts |-> vopts, vehicle |-> sel.selected_vehicle,
          method |-> sel.agg_method, raw |-> sel.raw],
   out |-> [status |-> "ok", line |-> 0, df |-> df,
            selected_zone |-> sel.selected_zone,
            selected_vehicle |-> sel.selected_vehicle,
            agg_method |-> sel.agg_method,
            filtered_df |-> filtered_df,
            agg_df |-> agg_df,
            fig_freight |-> FigFreight(agg_df, sel.agg_method),
            fig_tat |-> FigTat(agg_df, sel.agg_method),
            fig_trends |-> FigTrends(agg_df),
            table |-> IF sel.raw THEN RawTable(df, filtered_df) ELSE <<>>,
            produced |-> AllArtifacts \cup
                         (IF sel.raw THEN {"dataframe"} ELSE {"info"})]]

\* lines 59-72: the filters and the aggregation
Filters(stale, df, zopts, vopts, sel) ==
  LET filtered_df ==
        ApplyFilters(FilterStart(df, stale), sel.selected_zone,
                     sel.selected_vehicle)
  IN Charts(df, zopts, vopts, sel, filtered_df,
            Aggregate(filtered_df, sel.agg_method))

\* lines 43-57 and 107: the widgets; line 47 raises IndexError when there is
\* no zone, and the stored widget values stay as they were
Sidebar(w, stale, df, zopts, vopts) ==
  IF zopts = <<>>
  THEN [w |-> w,
        out |-> [NoOut EXCEPT !.status = "IndexError", !.line = 47,
                              !.produced = {"title", "sidebar_header"}]]
  ELSE Filters(stale, df, zopts, vopts,
               [selected_zone |->
                  Multiselect(w.live, w.zoneOpts, w.zone, zopts,
                              ZoneDefault(zopts)),
                selected_vehicle |->
                  Multiselect(w.live, w.vehOpts, w.vehicle, vopts, {}),
                agg_method |-> Radio(w.live, w.method),
                raw |-> Checkbox(w.live, w.raw)])

\* lines 39-110 after the conversion conv: a ValueError ends the run with
\* nothing but the title, and the stored widget values stay as they were
Page(w, stale, conv) ==
  IF ~conv.ok
  THEN [w |-> w,
        out |-> [NoOut EXCEPT !.status = "ValueError", !.line = conv.line,
                              !.produced = {"title"}]]
  ELSE Sidebar(w, stale, conv.df, Unique(Column(conv.df, "ZONE")),
               Unique(Column(conv.df, "Vehicle")))

\* one run of lines 38-110 over the rows load_data() returned, with the
\* session's stored widget state w; stale is the previous run's filtered_df
Script(w, stale, rows) == Page(w, stale, ConvertNumeric(rows))

---------------------------------------------------------------------------
(* State *)

\* a session: where its run is and when it began, the stored widget state,
\* what the run has produced so far, the filtered frame the run before it
\* left, the frame load_data() returned and the time its entry was written,
\* the frame just fetched, and whether the run found no stored widget state
NewSession ==
  [pc |-> "new", began |-> 0, w |-> NoWidgets, out |-> NoOut,
   stale |-> <<>>, rows |-> <<>>, stamp |-> -1, fetched |-> <<>>,
   first |-> FALSE]

\* the rows a spreadsheet can hold
SheetRows ==
  { [ZONE |-> "North", Vehicle |-> "Truck", Month |-> Jan, Freight |-> c100, TAT |-> c5],
    [ZONE |-> "South", Vehicle |-> "Van",   Month |-> Jan, Freight |-> c200, TAT |-> c7],
    [ZONE |-> "North", Vehicle |-> "Van",   Month |-> Feb, Freight |-> c2e2, TAT |-> cSp5],
    [ZONE |-> "South", Vehicle |-> "Truck", Month |-> Feb, Freight |-> cNeg5, TAT |-> c7],
    [ZONE |-> "North", Vehicle |-> "Truck", Month |-> Feb, Freight |-> blank, TAT |-> c1p5],
    [ZONE |-> "North", Vehicle |-> "Truck", Month |-> Jan, Freight |-> abc, TAT |-> c5],
    [ZONE |-> "South", Vehicle |-> "Van",   Month |-> Feb, Freight |-> c100, TAT |-> nan] }

Tables == UNION {[1..n -> SheetRows] : n \in 0..MaxRows}

ExampleTable ==
  << [ZONE |-> "North", Vehicle |-> "Truck", Month |-> Jan, Freight |-> c100, TAT |-> c5],
     [ZONE |-> "South", Vehicle |-> "Van",   Month |-> Jan, Freight |-> c200, TAT |-> c7] >>

EditedTable ==
  << [ZONE |-> "South", Vehicle |-> "Truck", Month |-> Feb, Freight |-> cNeg5, TAT |-> c7] >>

\* what values().get() finds in the range: a header row and the data rows
\* below it, or no values at all; or the request raises (network,
\* permissions, quota)
WithHeader(t) == [up |-> TRUE, header |-> TRUE, rows |-> t]
NoValues == [up |-> TRUE, header |-> FALSE, rows |-> <<>>]
Unreachable == [up |-> FALSE, header |-> FALSE, rows |-> <<>>]

Sheets == {WithHeader(t) : t \in Tables} \cup {NoValues, Unreachable}

CacheSheets ==
  {WithHeader(ExampleTable), WithHeader(EditedTable), NoValues, Unreachable}

NoCache == [has |-> FALSE, tbl |-> <<>>, stamp |-> 0]

---------------------------------------------------------------------------
(* load_data() under @st.cache_data(ttl=600), lines 18-29 *)

\* variant of CacheValid that also drops the entry when the sheet changes
CacheValidUnlessChanged ==
  cache.has /\ now - cache.stamp < TTL /\ cache.tbl = sheet.rows

\* an entry is served until ttl seconds after it was written, whatever has
\* happened upstream
CacheValid == cache.has /\ now - cache.stamp < TTL

\* lines 32-33: a new run has rendered the title and nothing else
Titled == [NoOut EXCEPT !.produced = {"title"}]

\* line 36: load_data() has returned a copy of rows to the script
Loaded(s, rows, stamp) ==
  [sess[s] EXCEPT !.pc = "loaded", !.rows = rows, !.stamp = stamp,
                  !.fetched = <<>>]

\* an exception leaves load_data(): the run is over with only the page
\* title rendered; no widget was, and the stored widget values stay as they
\* were
Abort(s, status, line) ==
  [NewSession EXCEPT !.pc = "error", !.began = sess[s].began,
                     !.w = sess[s].w,
                     !.out = [Titled EXCEPT !.status = status, !.line = line]]

\* lines 32-36: a rerun of the script with widget state w gets as far as the
\* cache lookup of load_data(): a hit returns the entry, a miss calls the
\* function
Begin(s, w) ==
  [(IF CacheValid
    THEN Loaded(s, cache.tbl, cache.stamp)
    ELSE [sess[s] EXCEPT !.pc = "fetch"])
   EXCEPT !.began = now, !.w = w, !.out = Titled,
          !.stale = sess[s].out.filtered_df]

Idle(s) == sess[s].pc \in {"done", "error"}

\* a browser session opens (or reloads) the page: no widget state yet
Fresh(s) ==
  /\ sess[s].pc \in {"new", "done", "error"}
  /\ sess' = [sess EXCEPT ![s] = Begin(s, NoWidgets)]
  /\ UNCHANGED <<secrets, sheet, service, cache, now, lastFetch>>

\* a rerun with the widget values unchanged
Rerun(s) ==
  /\ Idle(s)
  /\ sess' = [sess EXCEPT ![s] = Begin(s, sess[s].w)]
  /\ UNCHANGED <<secrets, sheet, service, cache, now, lastFetch>>

Range(f) == {f[i] : i \in DOMAIN f}

\* the user changes the "Select Zone" multiselect
ChangeZone(s, Z) ==
  /\ sess[s].pc = "done"
  /\ Z \subseteq Range(sess[s].w.zoneOpts)
  /\ Z # sess[s].w.zone
  /\ sess' = [sess EXCEPT ![s] = Begin(s, [sess[s].w EXCEPT !.zone = Z])]
  /\ UNCHANGED <<secrets, sheet, service, cache, now, lastFetch>>

\* the user changes the "Vehicle Type" multiselect
ChangeVehicle(s, V) ==
  /\ sess[s].pc = "done"
  /\ V \subseteq Range(sess[s].w.vehOpts)
  /\ V # sess[s].w.vehicle
  /\ sess' = [sess EXCEPT ![s] = Begin(s, [sess[s].w EXCEPT !.vehicle = V])]
  /\ UNCHANGED <<secrets, sheet, service, cache, now, lastFetch>>

\* the user picks another "Aggregation" radio option
ChangeMethod(s, m) ==
  /\ sess[s].pc = "done"
  /\ m \in Methods
  /\ m # sess[s].w.method
  /\ sess' = [sess EXCEPT ![s] = Begin(s, [sess[s].w EXCEPT !.method = m])]
  /\ UNCHANGED <<secrets, sheet, service, cache, now, lastFetch>>

\* the user toggles the "Show raw data" checkbox
ToggleRaw(s) ==
  /\ sess[s].pc = "done"
  /\ sess' = [sess EXCEPT ![s] =
                Begin(s, [sess[s].w EXCEPT !.raw = ~sess[s].w.raw])]
  /\ UNCHANGED <<secrets, sheet, service, cache, now, lastFetch>>

\* line 18: a caller that missed is given the entry another caller has
\* stored since, instead of computing its own
Reuse(s) ==
  /\ sess[s].pc = "fetch"
  /\ CacheValid
  /\ sess' = [sess EXCEPT ![s] = Loaded(s, cache.tbl, cache.stamp)]
  /\ UNCHANGED <<secrets, sheet, service, cache, now, lastFetch>>

\* lines 8-15 and 20: connect_to_gsheet() returns the service, built from
\* the credentials and kept for the process if it was not there yet
Connect(s) ==
  /\ sess[s].pc = "fetch"
  /\ service \/ secrets # "no_credentials"
  /\ service' = TRUE
  /\ sess' = [sess EXCEPT ![s].pc = "request"]
  /\ UNCHANGED <<secrets, sheet, cache, now, lastFetch>>

\* lines 8-15 and 20: the service has not been built yet and building it
\* raises for want of the credentials; nothing is kept
ConnectFails(s) ==
  /\ sess[s].pc = "fetch"
  /\ ~service
  /\ secrets = "no_credentials"
  /\ sess' = [sess EXCEPT ![s] = Abort(s, "ConnectError", 20)]
  /\ UNCHANGED <<secrets, sheet, service, cache, now, lastFetch>>

\* line 21: the secrets hold no sheet id; KeyError before any request
SheetIdMissing(s) ==
  /\ sess[s].pc = "request"
  /\ secrets = "no_sheet_id"
  /\ sess' = [sess EXCEPT ![s] = Abort(s, "KeyError", 21)]
  /\ UNCHANGED <<secrets, sheet, service, cache, now, lastFetch>>

\* lines 21-26: the request raises; nothing is stored
RequestFails(s) ==
  /\ sess[s].pc = "request"
  /\ secrets # "no_sheet_id"
  /\ ~sheet.up
  /\ lastFetch' = now
  /\ sess' = [sess EXCEPT ![s] = Abort(s, "RequestError", 26)]
  /\ UNCHANGED <<secrets, sheet, service, cache, now>>

\* lines 21-28: the request returns the sheet as it is now; without a header
\* row rows[0] raises IndexError and nothing is stored
Fetch(s) ==
  /\ sess[s].pc = "request"
  /\ secrets # "no_sheet_id"
  /\ sheet.up
  /\ lastFetch' = now
  /\ sess' = [sess EXCEPT ![s] =
                IF sheet.header
                THEN [sess[s] EXCEPT !.pc = "write", !.fetched = sheet.rows]
                ELSE Abort(s, "IndexError", 28)]
  /\ UNCHANGED <<secrets, sheet, service, cache, now>>

\* the returned frame is stored with the time of writing, and load_data()
\* returns it
Write(s) ==
  /\ sess[s].pc = "write"
  /\ cache' = [has |-> TRUE, tbl |-> sess[s].fetched, stamp |-> now]
  /\ sess' = [sess EXCEPT ![s] = Loaded(s, sess[s].fetched, now)]
  /\ UNCHANGED <<secrets, sheet, service, now, lastFetch>>

\* the session after a run that ended as r
Rendered(s, r) ==
  [sess[s] EXCEPT !.pc = IF r.out.status = "ok" THEN "done" ELSE "error",
                  !.w = r.w,
                  !.out = r.out,
                  !.stale = <<>>,
                  !.first = ~sess[s].w.live]

\* lines 38-110: the rest of the script over the rows load_data() returned;
\* first records that the run found no stored widget state
Render(s) ==
  /\ sess[s].pc = "loaded"
  /\ sess' = [sess EXCEPT ![s] =
                Rendered(s, Script(sess[s].w, sess[s].stale, sess[s].rows))]
  /\ UNCHANGED <<secrets, sheet, service, cache, now, lastFetch>>

\* time passes
Tick ==
  /\ now + TickStep <= MaxTime
  /\ now' = now + TickStep
  /\ UNCHANGED <<secrets, sheet, service, cache, lastFetch, sess>>

\* somebody edits the spreadsheet, or it stops or starts being reachable
Edit(t) ==
  /\ t \in CacheSheets
  /\ t # sheet
  /\ sheet' = t
  /\ UNCHANGED <<secrets, service, cache, now, lastFetch, sess>>

---------------------------------------------------------------------------
(* Specifications *)

Secrets == {"ok", "no_sheet_id", "no_credentials"}

InitCommon ==
  /\ secrets \in Secrets
  /\ service = FALSE
  /\ cache = NoCache
  /\ now = 0
  /\ lastFetch = -1
  /\ sess = [s \in Sessions |-> NewSession]

\* one session working on any one spreadsheet
Init == sheet \in Sheets /\ InitCommon

Next ==
  \E s \in {1} :
    \/ Fresh(s)
    \/ Rerun(s)
    \/ \E Z \in SUBSET Range(sess[s].w.zoneOpts) : ChangeZone(s, Z)
    \/ \E V \in SUBSET Range(sess[s].w.vehOpts) : ChangeVehicle(s, V)
    \/ \E m \in Methods : ChangeMethod(s, m)
    \/ ToggleRaw(s)
    \/ Connect(s)
    \/ ConnectFails(s)
    \/ SheetIdMissing(s)
    \/ RequestFails(s)
    \/ Fetch(s)
    \/ Write(s)
    \/ Render(s)

Spec == Init /\ [][Next]_vars

\* several sessions, a clock and an upstream that changes
InitCache == sheet \in CacheSheets /\ InitCommon

NextCache ==
  \/ \E s \in Sessions :
       \/ Fresh(s)
       \/ Rerun(s)
       \/ Reuse(s)
       \/ Connect(s)
       \/ ConnectFails(s)
       \/ SheetIdMissing(s)
       \/ RequestFails(s)
       \/ Fetch(s)
       \/ Write(s)
       \/ Render(s)
  \/ Tick
  \/ \E t \in CacheSheets : Edit(t)

SpecCache == InitCache /\ [][NextCache]_vars

\* several sessions on one sheet, each with its own history of interactions
NextSessions ==
  \E s \in Sessions :
    \/ Fresh(s)
    \/ Rerun(s)
    \/ \E Z \in SUBSET Range(sess[s].w.zoneOpts) : ChangeZone(s, Z)
    \/ \E V \in SUBSET Range(sess[s].w.vehOpts) : ChangeVehicle(s, V)
    \/ \E m \in Methods : ChangeMethod(s, m)
    \/ ToggleRaw(s)
    \/ Reuse(s)
    \/ Connect(s)
    \/ ConnectFails(s)
    \/ SheetIdMissing(s)
    \/ RequestFails(s)
    \/ Fetch(s)
    \/ Write(s)
    \/ Render(s)

SpecSessions == InitCache /\ [][NextSessions]_vars

---------------------------------------------------------------------------
(* What the claims are stated in: definitions of their own, written from   *)
(* the claims' words and independent of the operators above                *)

Done(s) == sess[s].pc = "done"

NumericColumns == {"Freight", "TAT"}

\* the inclusion predicate of one row
Passes(r, Z, V) == (Z = {} \/ r.ZONE \in Z) /\ (V = {} \/ r.Vehicle \in V)

\* the rows that pass, in their relative order
Selected(df, Z, V) ==
  LET Keep(r) == Passes(r, Z, V) IN SelectSeq(df, Keep)

\* a numeral: an optional sign, digits with at most one decimal point among
\* them, and optionally e or E, an optional sign and digits
IsMantissa(u) ==
  LET k == IF u # <<>> /\ u[1] \in {43, 45} THEN 1 ELSE 0
      P == (k + 1)..Len(u)
  IN /\ \A i \in P : u[i] \in 48..57 \/ u[i] = 46
     /\ \E i \in P : u[i] \in 48..57
     /\ Cardinality({i \in P : u[i] = 46}) <= 1

IsExponent(v) ==
  \/ v = <<>>
  \/ /\ v[1] \in {101, 69}
     /\ LET k == IF Len(v) > 1 /\ v[2] \in {43, 45} THEN 2 ELSE 1
        IN /\ Len(v) > k
           /\ \A i \in (k + 1)..Len(v) : v[i] \in 48..57

IsNumeral(t) ==
  \E m \in 1..Len(t) :
    IsMantissa(SubSeq(t, 1, m)) /\ IsExponent(SubSeq(t, m + 1, Len(t)))

\* the cell is a numeral with white space around it
ReadsAsNumber(cell) ==
  \E i, j \in 1..Len(cell) :
    /\ \A k \in 1..(i - 1) : cell[k] \in 9..13 \cup {32}
    /\ \A k \in (j + 1)..Len(cell) : cell[k] \in 9..13 \cup {32}
    /\ IsNumeral(SubSeq(cell, i, j))

\* the cell spells inf or infinity, in any case, perhaps signed
IsSpecialWord(cell) ==
  \E w \in {<<105, 110, 102>>,
            <<105, 110, 102, 105, 110, 105, 116, 121>>} :
    \E k \in {0, 1} :
      /\ Len(cell) = Len(w) + k
      /\ k = 1 => cell[1] \in {43, 45}
      /\ \A i \in 1..Len(w) : cell[i + k] \in {w[i], w[i] - 32}

\* a cell that is text but not a number; a cell that is not a number at all
Unparseable(cell) ==
  cell # <<>> /\ ~ReadsAsNumber(cell) /\ ~IsSpecialWord(cell)
NotANumber(cell) == cell = <<>> \/ Unparseable(cell)

\* a < b as strings: equal up to a position where a ends or has the smaller code
LexLess(a, b) ==
  \E i \in 1..(Len(b)) :
    /\ i <= Len(a) + 1
    /\ \A j \in 1..(i - 1) : a[j] = b[j]
    /\ (i = Len(a) + 1 \/ a[i] < b[i])

MonthsOf(df) == {df[i].Month : i \in 1..Len(df)}

GroupRows(df, m) == {i \in 1..Len(df) : df[i].Month = m}

\* the rows of S whose cell in col holds a number
Valued(df, S, col) == {i \in S : ~(df[i][col].den = 0 /\ df[i][col].num = 0)}

\* a common denominator of the cells, and their sum over it
RECURSIVE CommonDen(_, _, _)
CommonDen(df, S, col) ==
  IF S = {} THEN 1
  ELSE LET i == CHOOSE i \in S : TRUE
       IN df[i][col].den * CommonDen(df, S \ {i}, col)

RECURSIVE SumOver(_, _, _, _)
SumOver(df, S, col, D) ==
  IF S = {} THEN 0
  ELSE LET i == CHOOSE i \in S : TRUE
       IN df[i][col].num * (D \div df[i][col].den) + SumOver(df, S \ {i}, col, D)

\* v is the reduction of column col over the rows S of df, all of them finite
\* numbers
IsReduction(v, method, df, S, col) ==
  LET D == CommonDen(df, S, col)
  IN IF method = "Sum"
     THEN v.den > 0 /\ v.num * D = v.den * SumOver(df, S, col, D)
     ELSE IF S = {} THEN v.den = 0 /\ v.num = 0
     ELSE IF method = "Average"
     THEN v.den > 0 /\ v.num * D * Cardinality(S) = v.den * SumOver(df, S, col, D)
     ELSE /\ v.den > 0
          /\ \E i \in S : df[i][col] = v
          /\ \A i \in S : df[i][col].num * v.den <= v.num * df[i][col].den

\* one aggregated row per distinct Month of the filtered table
OneRowPerMonth(o) ==
  /\ {o.agg_df[k].Month : k \in 1..Len(o.agg_df)} = MonthsOf(o.filtered_df)
  /\ Len(o.agg_df) = Cardinality(MonthsOf(o.filtered_df))

\* the first render of a session: the run found no stored widget state
FirstRender(s) == sess[s].pc = "done" /\ sess[s].first

\* load_data() raised: the run of session s ended before line 38
LoadFailed(s) ==
  /\ sess[s].pc = "error"
  /\ sess[s].out.line \in {20, 21, 26, 28}

\* session s holds a table that load_data() returned
Holds(s) == sess[s].pc \in {"loaded", "done", "error"} /\ ~LoadFailed(s)

\* the cache's entry was written before the run of s began and was younger
\* than the time-to-live then
EntryAtBegin(s) ==
  /\ cache.has
  /\ cache.stamp < sess[s].began
  /\ sess[s].began < cache.stamp + TTL

\* the run of s began when the cache's entry had reached the time-to-live
ExpiredAtBegin(s) == cache.has /\ sess[s].began >= cache.stamp + TTL

\* session s makes the upstream request in this step
Requests(s) ==
  /\ sess[s].pc = "request"
  /\ \/ sess'[s].pc = "write"
     \/ sess'[s].pc = "error" /\ sess'[s].out.line \in {26, 28}

\* the frame of a finished run has the labels of the loaded rows
SameLabels(df, rows) ==
  /\ Len(df) = Len(rows)
  /\ \A i \in 1..Len(df) :
       /\ df[i].ZONE = rows[i].ZONE
       /\ df[i].Vehicle = rows[i].Vehicle
       /\ df[i].Month = rows[i].Month

\* what expiry-only invalidation means for session s in one step: a run is
\* never given an entry that had reached the time-to-live when the run began;
\* a run that began inside an entry's window holds that entry, whatever the
\* sheet holds by now, and makes no request; a request that returns hands
\* over the sheet as it is at the request; an entry that is stored is the
\* table just fetched, stamped with the time of writing, and it is what the
\* writer goes on with; and a render is of the table the run was given
ExpiryOnlyStep(s) ==
  /\ Holds(s)' => sess'[s].began < sess'[s].stamp + TTL
  /\ (Holds(s)' /\ EntryAtBegin(s)') =>
       /\ sess'[s].rows = cache'.tbl
       /\ sess'[s].stamp = cache'.stamp
  /\ Requests(s) => ~EntryAtBegin(s)
  /\ (Requests(s) /\ ~LoadFailed(s)') => sess'[s].fetched = sheet.rows
  /\ (cache' # cache /\ sess'[s] # sess[s]) =>
       /\ cache' = [has |-> TRUE, tbl |-> sess[s].fetched, stamp |-> now]
       /\ Holds(s)'
       /\ sess'[s].rows = sess[s].fetched
       /\ sess'[s].stamp = now
  /\ Done(s)' => SameLabels(sess'[s].out.df, sess'[s].rows)

---------------------------------------------------------------------------
(* Claims *)

\* C1: in every render the filtered table is exactly the rows of the loaded
\* table that pass (zone selection empty or ZONE selected) and (vehicle
\* selection empty or vehicle selected), in their relative order; with both
\* selections empty it is the loaded table itself.
C1_FilterExact ==
  \A s \in Sessions :
    Done(s) =>
      LET o == sess[s].out
          w == sess[s].w
      IN /\ SameLabels(o.df, sess[s].rows)
         /\ o.filtered_df = Selected(o.df, w.zone, w.vehicle)
         /\ (w.zone = {} /\ w.vehicle = {} => o.filtered_df = o.df)

\* an empty zone selection lets every zone through while a vehicle selection
\* removes some rows and keeps others
C1_Witness ==
  \E s \in Sessions :
    /\ Done(s)
    /\ sess[s].w.zone = {}
    /\ sess[s].w.vehicle # {}
    /\ Len(sess[s].out.filtered_df) = 1
    /\ Len(sess[s].out.df) = 2
    /\ sess[s].out.df[1].ZONE # sess[s].out.df[2].ZONE
    /\ sess[s].out.filtered_df[1] = sess[s].out.df[2]

\* C2: the aggregated table has exactly one row per distinct Month of the
\* filtered table, and in it Freight Value and TAT Value are the selected
\* reduction over exactly the filtered rows of that Month, every one of them
\* holding a number; the spec's example gives the single row {Jan, 100, 5}.
C2_AggregateOverAllRows ==
  \A s \in Sessions :
    Done(s) =>
      LET o == sess[s].out
      IN /\ OneRowPerMonth(o)
         /\ \A k \in 1..Len(o.agg_df) : \A col \in NumericColumns :
              LET G == GroupRows(o.filtered_df, o.agg_df[k].Month)
              IN /\ Valued(o.filtered_df, G, col) = G
                 /\ IsReduction(o.agg_df[k][col], sess[s].w.method,
                                o.filtered_df, G, col)
         /\ (/\ sess[s].rows = ExampleTable
             /\ sess[s].w.zone = {"North"}
             /\ sess[s].w.vehicle = {}
             /\ sess[s].w.method = "Average")
            => o.agg_df = <<[Month |-> Jan, Freight |-> Num(100), TAT |-> Num(5)]>>

\* C3: what is rendered depends only on the loaded table and the current
\* widget values: two sessions that reached the same widget values over the
\* same loaded table, by whatever interactions, render the same output.
C3_Stateless ==
  \A s, t \in Sessions :
    (/\ Done(s) /\ Done(t)
     /\ sess[s].rows = sess[t].rows
     /\ sess[s].w = sess[t].w)
    => sess[s].out = sess[t].out

\* two sessions that both left every default behind and agree
C3_Witness ==
  /\ Done(1) /\ Done(2)
  /\ sess[1].w = sess[2].w
  /\ sess[1].rows = ExampleTable
  /\ sess[1].w.zone = {}
  /\ sess[1].w.vehicle = {"Van"}
  /\ sess[1].w.method = "Max"
  /\ sess[1].w.raw
  /\ sess[1].out.filtered_df # <<>>

\* C4: no upstream request is made less than 600 seconds after the one
\* before it, and the callers of one window (here the first, which opens
\* with the process) all end their runs over the same table.
C4_OneFetchPerWindow ==
  [][ /\ \A s \in Sessions :
           Requests(s) => (lastFetch < 0 \/ now >= lastFetch + TTL)
      /\ \A s, t \in Sessions :
           (/\ Idle(s)' /\ Idle(t)'
            /\ sess'[s].began < TTL /\ sess'[t].began < TTL)
           => sess'[s].rows = sess'[t].rows ]_vars

C6_NonNumericCellAborts ==
  \A s \in Sessions :
    sess[s].pc \in {"done", "error"} =>
      ((\E i \in 1..Len(sess[s].rows) : \E col \in NumericColumns :
          NotANumber(sess[s].rows[i][col]))
       => sess[s].out.status = "ValueError")

\* C7: filtering and aggregation are total: every completed run over a
\* loaded table whose numeric cells all convert, a table without data rows
\* included, produces a filtered and an aggregated table and raises nothing.
C7_FilterAggregateTotal ==
  \A s \in Sessions :
    (/\ sess[s].pc \in {"done", "error"}
     /\ ~LoadFailed(s)
     /\ \A i \in 1..Len(sess[s].rows) : \A col \in NumericColumns :
          ~Unparseable(sess[s].rows[i][col]))
    => /\ sess[s].out.status = "ok"
       /\ {"filtered_df", "agg_df"} \subseteq sess[s].out.produced

\* C8: the raw table is displayed exactly when the checkbox is checked, and
\* then it is the filtered table under the current selections; unchecked,
\* the notice is shown instead; a session's first render has it unchecked.
C8_RawGate ==
  \A s \in Sessions :
    /\ Done(s) =>
         LET o == sess[s].out
             w == sess[s].w
         IN /\ ("dataframe" \in o.produced) <=> w.raw
            /\ ("info" \in o.produced) <=> ~w.raw
            /\ {"fig_freight", "fig_tat", "fig_trends"} \subseteq o.produced
            /\ o.table = IF w.raw THEN Selected(o.df, w.zone, w.vehicle)
                         ELSE <<>>
    /\ FirstRender(s) => ~sess[s].w.raw

\* the checkbox is checked and the table shown is a proper part of the
\* loaded table
C8_Witness ==
  \E s \in Sessions :
    /\ Done(s)
    /\ ~sess[s].first
    /\ sess[s].w.raw
    /\ "dataframe" \in sess[s].out.produced
    /\ sess[s].out.table # <<>>
    /\ Len(sess[s].out.table) < Len(sess[s].out.df)

\* C9: the aggregated rows are in strictly ascending order of the Month
\* label compared as a string.
C9_SortedByLabel ==
  \A s \in Sessions :
    Done(s) =>
      \A k \in 1..(Len(sess[s].out.agg_df) - 1) :
        LexLess(sess[s].out.agg_df[k].Month, sess[s].out.agg_df[k + 1].Month)

\* Jan appears before Feb in the filtered table (and in the calendar), and
\* the aggregated table has Feb first
C9_Witness ==
  \E s \in Sessions :
    /\ Done(s)
    /\ Len(sess[s].out.filtered_df) = 2
    /\ sess[s].out.filtered_df[1].Month = Jan
    /\ sess[s].out.filtered_df[2].Month = Feb
    /\ Len(sess[s].out.agg_df) = 2
    /\ sess[s].out.agg_df[1].Month = Feb
    /\ sess[s].out.agg_df[2].Month = Jan

\* C10: a session's first render has the zone selection {ZONE of the first
\* row}, no vehicle selected and method Average, and shows only that zone's
\* rows; the zone selection becomes empty only when the user clears it.
C10_FreshDefaults ==
  [][ \A s \in Sessions :
        /\ FirstRender(s)' =>
             LET o == sess'[s].out
                 w == sess'[s].w
                 first == {sess'[s].rows[1].ZONE}
             IN /\ w.zone = first /\ o.selected_zone = first
                /\ w.vehicle = {} /\ o.selected_vehicle = {}
                /\ w.method = "Average" /\ o.agg_method = "Average"
                /\ o.filtered_df = Selected(o.df, first, {})
        /\ (sess'[s].w.live /\ sess'[s].w.zone = {}) =>
             \/ sess[s].w.live /\ sess[s].w.zone = {}
             \/ ChangeZone(s, {}) ]_vars

\* a first render that leaves the other zone's row out
C10_Witness ==
  \E s \in Sessions :
    /\ FirstRender(s)
    /\ sess[s].w.zone = {sess[s].rows[1].ZONE}
    /\ sess[s].w.vehicle = {}
    /\ sess[s].w.method = "Average"
    /\ ~sess[s].w.raw
    /\ Len(sess[s].rows) = 2
    /\ sess[s].rows[2].ZONE # sess[s].rows[1].ZONE
    /\ Len(sess[s].out.filtered_df) = 1

===========================================================================
